---- MODULE Spec2Model ----
(***************************************************************************)
(* A model of basecouch (database.go, rest.go): a CouchDB-style database   *)
(* kept in one Couchbase bucket.  Strings are sequences of tokens; the     *)
(* tokens are single characters, except the literals of the source         *)
(* ("cdb", "doc", "nextsequence") and the UUIDs, none of which holds a     *)
(* ":" or a "/".  The bucket is a function from keys to stored values.     *)
(* Request handlers run in parallel, one bucket call per step.             *)
(***************************************************************************)
EXTENDS Integers, Sequences, FiniteSets, TLC

\* ------------------------------------------------------------------ bounds
\* UUIDs that createUUID hands out in one run
MaxUUID == 2
\* largest value the sequence counter of one database reaches in one run
MaxSeq == 3
\* largest uint64 (2^64 - 1 in the source), scaled down
MaxUint == 7

Procs == {1, 2}

\* the UUIDs createUUID returns, in the order it returns them
UUIDs == <<"u1", "u2", "u3", "u4">>

\* database names the callers pass: empty, wholly illegal, legal, and one
\* that mixes a legal and an illegal character
Names == {<< >>, <<"A">>, <<"a">>, <<"a", "A">>}

\* the names passed where one handler works alone
SeqNames == {<< >>, <<"A">>, <<"a">>}

\* document ids the callers pass: DocIDs where handlers race, ColonDocIDs
\* (with an id that holds a ":") where one handler works alone
DocIDs == {<<"x">>}
ColonDocIDs == {<<"x">>, <<"x", ":", "y">>}

\* ?since= values the callers pass
Sinces == {0, 1, MaxUint}

\* ?limit= values the callers pass
Limits == {0, 1}

VARIABLES
    bucket,     \* the Couchbase bucket: key -> stored value
    nextUUID,   \* how many UUIDs createUUID has returned
    pc,         \* where each handler is
    loc,        \* each handler's local variables and its result
    issued,     \* history: per database name, the values generateSequence returned
    doneMax,    \* history: per database name, the largest sequence of a completed write
    prefixes    \* history: every docPrefix a database record was written with

vars == <<bucket, nextUUID, pc, loc, issued, doneMax, prefixes>>

\* ------------------------------------------------------------------ strings

\* the characters of [-%+()$_a-z0-9] among the tokens of the model
PermittedChars == {"a", "b", "x", "y", "-", "_", "0", "1"}

\* regexp.MatchString of "[-%+()$_a-z0-9]+": the pattern is not anchored, so it
\* matches when some non-empty run of permitted characters occurs in the name
kDBNameMatch(dbName) == \E i \in 1..Len(dbName) : dbName[i] \in PermittedChars

dbInternalDocName(dbName) ==
    IF ~kDBNameMatch(dbName) THEN << >> ELSE <<"cdb", ":">> \o dbName

\* the Database struct; NoDB is the zero value
NoDB == [Name |-> << >>, DocPrefix |-> << >>]

\* a CreateDatabase that leaves the UUID out of the docPrefix
NewDatabaseSameUUID(name, uuid) ==
    [Name |-> name, DocPrefix |-> <<"doc", ":">> \o name \o <<"/", "u1", ":">>]

\* fmt.Sprintf("doc:%s/%s:", name, createUUID())
NewDatabase(name, uuid) ==
    [Name |-> name, DocPrefix |-> <<"doc", ":">> \o name \o <<"/", uuid, ":">>]

realDocID(db, docid) == db.DocPrefix \o docid

\* db.DocPrefix[4 : len(db.DocPrefix)-1]: "doc:" is the tokens "doc", ":"
UUID(db) == SubSeq(db.DocPrefix, 3, Len(db.DocPrefix) - 1)

sequenceDocID(db) == dbInternalDocName(db.Name) \o <<":", "nextsequence">>

\* ------------------------------------------------------------------ bucket

Has(b, key) == key \in DOMAIN b

\* bucket.Set(key, value): unconditional write
BucketSet(b, key, value) == [k \in DOMAIN b \cup {key} |-> IF k = key THEN value ELSE b[k]]

\* bucket.Delete(key): removes the key; an absent key is an error
BucketDelete(b, key) == [k \in DOMAIN b \ {key} |-> b[k]]

\* stored values
DBValue(db) == [kind |-> "db", Name |-> db.Name, DocPrefix |-> db.DocPrefix]
CounterValue(n) == [kind |-> "counter", n |-> n]

\* bucket.Get(docname, &db): the record decoded into a Database
DecodeDB(v) == [Name |-> v.Name, DocPrefix |-> v.DocPrefix]

\* a document record: {current: {_id, _rev, _deleted}, sequence}; a revision id
\* "N-digest" is modelled by its generation N
DocValue(docid, rev, deleted, seq) ==
    [kind |-> "doc", current |-> [_id |-> docid, _rev |-> rev, _deleted |-> deleted],
     sequence |-> seq]

\* uint64 addition
AddUint(a, b) == (a + b) % (MaxUint + 1)

\* bucket.Incr(key, delta, initial, expiry): the atomic counter.  An absent key
\* is initialised to `initial` when delta > 0; with delta = 0 the current value
\* is returned without a write, and an absent key is an error
Incr(b, key, delta, initial) ==
    IF Has(b, key)
    THEN LET n == AddUint(b[key].n, delta) IN
         [err |-> FALSE, val |-> n,
          bucket |-> IF delta > 0 THEN BucketSet(b, key, CounterValue(n)) ELSE b]
    ELSE IF delta > 0
    THEN [err |-> FALSE, val |-> initial, bucket |-> BucketSet(b, key, CounterValue(initial))]
    ELSE [err |-> TRUE, val |-> 0, bucket |-> b]

\* ------------------------------------------------------------------ views

\* collation order of the tokens
TokOrder == <<"/", ":", "A", "a", "cdb", "doc", "nextsequence",
              "u1", "u2", "u3", "u4", "x", "y">>

Rank(t) == CHOOSE i \in 1..Len(TokOrder) : TokOrder[i] = t

RECURSIVE StrCmp(_, _)
StrCmp(s, t) ==
    IF s = << >> THEN (IF t = << >> THEN 0 ELSE -1)
    ELSE IF t = << >> THEN 1
    ELSE IF Rank(Head(s)) < Rank(Head(t)) THEN -1
    ELSE IF Rank(Head(s)) > Rank(Head(t)) THEN 1
    ELSE StrCmp(Tail(s), Tail(t))

\* the elements of a view key: a number, a string, or the empty object {}
\* (make(Body)); numbers collate before strings, strings before objects
Num(n) == [t |-> 1, n |-> n, s |-> << >>]
Str(s) == [t |-> 2, n |-> 0, s |-> s]
Obj == [t |-> 3, n |-> 0, s |-> << >>]

ElemCmp(a, b) ==
    IF a.t # b.t THEN (IF a.t < b.t THEN -1 ELSE 1)
    ELSE IF a.t = 1 THEN (IF a.n < b.n THEN -1 ELSE IF a.n > b.n THEN 1 ELSE 0)
    ELSE IF a.t = 2 THEN StrCmp(a.s, b.s)
    ELSE 0

\* view keys are arrays: compared element by element, a prefix first
RECURSIVE KeyCmp(_, _)
KeyCmp(k1, k2) ==
    IF k1 = << >> THEN (IF k2 = << >> THEN 0 ELSE -1)
    ELSE IF k2 = << >> THEN 1
    ELSE LET c == ElemCmp(Head(k1), Head(k2)) IN
         IF c # 0 THEN c ELSE KeyCmp(Tail(k1), Tail(k2))

\* every piece of s between ":" tokens
RECURSIVE SplitAll(_)
SplitAll(s) ==
    IF \A i \in 1..Len(s) : s[i] # ":" THEN <<s>>
    ELSE LET i == CHOOSE j \in 1..Len(s) :
                     s[j] = ":" /\ \A k \in 1..(j - 1) : s[k] # ":" IN
         <<SubSeq(s, 1, i - 1)>> \o SplitAll(SubSeq(s, i + 1, Len(s)))

\* JavaScript's meta.id.split(":", limit): the first `limit` pieces, the rest dropped
JSSplit(s, limit) ==
    LET all == SplitAll(s) IN
    IF Len(all) > limit THEN SubSeq(all, 1, limit) ELSE all

\* the rows alldocs_map emits for one bucket item
alldocs_map(doc, id) ==
    LET pieces == JSSplit(id, 3) IN
    IF Len(pieces) < 3 \/ pieces[1] # <<"doc">> THEN {}
    ELSE {[id |-> id, key |-> <<Str(pieces[2]), Str(pieces[3])>>,
           value |-> [_id |-> << >>, _rev |-> 0, extra |-> << >>]]}

\* a changes_map that leaves deleted documents out
changes_mapSkipDeleted(doc, id) ==
    IF doc.kind # "doc" \/ doc.current._deleted THEN {}
    ELSE LET pieces == JSSplit(id, 3) IN
         IF Len(pieces) < 3 \/ pieces[1] # <<"doc">> THEN {}
         ELSE {[id |-> id, key |-> <<Str(pieces[2]), Num(doc.sequence)>>,
                value |-> [_id |-> doc.current._id, _rev |-> doc.current._rev,
                           extra |-> << >>]]}

\* the rows changes_map emits for one bucket item; the value is
\* [current._id, current._rev], with true pushed when current._deleted
changes_map(doc, id) ==
    IF doc.kind # "doc" THEN {}
    ELSE LET pieces == JSSplit(id, 3) IN
         IF Len(pieces) < 3 \/ pieces[1] # <<"doc">> THEN {}
         ELSE {[id |-> id, key |-> <<Str(pieces[2]), Num(doc.sequence)>>,
                value |-> [_id |-> doc.current._id, _rev |-> doc.current._rev,
                           extra |-> IF doc.current._deleted THEN <<TRUE>> ELSE << >>]]}

AllDocsRows(b) == UNION {alldocs_map(b[k], k) : k \in DOMAIN b}
ChangesRows(b) == UNION {changes_map(b[k], k) : k \in DOMAIN b}

\* rows in ascending order: by key, rows of equal key by document id
RowLE(r, q) ==
    LET c == KeyCmp(r.key, q.key) IN c < 0 \/ (c = 0 /\ StrCmp(r.id, q.id) <= 0)

RECURSIVE SortRows(_)
SortRows(S) ==
    IF S = {} THEN << >>
    ELSE LET r == CHOOSE x \in S : \A q \in S : RowLE(x, q) IN
         <<r>> \o SortRows(S \ {r})

Reverse(s) == [i \in 1..Len(s) |-> s[Len(s) + 1 - i]]

\* bucket.View(ddoc, view, opts): a scan of the index from startkey to endkey in
\* the direction of the scan, so that with descending it starts at startkey and
\* runs down to endkey; at most `limit` rows when limit > 0
ViewQuery(rows, startkey, endkey, descending, limit) ==
    LET hit == IF descending
               THEN {r \in rows : KeyCmp(endkey, r.key) <= 0 /\ KeyCmp(r.key, startkey) <= 0}
               ELSE {r \in rows : KeyCmp(startkey, r.key) <= 0 /\ KeyCmp(r.key, endkey) <= 0}
        asc == SortRows(hit)
        ord == IF descending THEN Reverse(asc) ELSE asc
    IN IF limit > 0 /\ Len(ord) > limit THEN SubSeq(ord, 1, limit) ELSE ord

\* allDocIDsOpts, lines 183-188
allDocIDsStart(db) == <<Str(UUID(db))>>
allDocIDsEnd(db) == <<Str(UUID(db)), Obj>>

\* AllDocIDs, lines 168-181: key[1] of every row
AllDocIDs(b, db) ==
    LET rows == ViewQuery(AllDocsRows(b), allDocIDsStart(db), allDocIDsEnd(db), FALSE, 0)
    IN [i \in 1..Len(rows) |-> rows[i].key[2].s]

\* the ChangeEntry of one row, lines 260-269
ChangeEntry(row) ==
    [Seq |-> row.key[2].n, ID |-> row.value._id, Rev |-> row.value._rev,
     Deleted |-> (Len(row.value.extra) >= 1 /\ row.value.extra[1])]

\* GetChanges, lines 241-272
GetChanges(b, db, since, limit, descending) ==
    LET startkey == <<Str(UUID(db)), Num(AddUint(since, 1))>>
        endkey == <<Str(UUID(db)), Obj>>
        rows == ViewQuery(ChangesRows(b), startkey, endkey, descending, limit)
    IN [i \in 1..Len(rows) |-> ChangeEntry(rows[i])]

\* a generateSequence whose counter starts at 0
generateSequenceFromZero(b, db) == Incr(b, sequenceDocID(db), 1, 0)

\* LastSequence, lines 214-216, and generateSequence, lines 218-220
LastSequence(b, db) == Incr(b, sequenceDocID(db), 0, 0)
generateSequence(b, db) == Incr(b, sequenceDocID(db), 1, 1)

\* ------------------------------------------------------------------ handlers

\* parseRevisions has not been called
NotParsed == [kind |-> "none", revs |-> << >>]

\* a body without _revisions
NoRevisions == [kind |-> "absent", startOK |-> FALSE, start |-> 0, idsOK |-> FALSE,
                ids |-> << >>]

NoLoc == [op |-> "", name |-> << >>, db |-> NoDB, docid |-> << >>,
          status |-> 0, val |-> 0, rev |-> 0, deleted |-> FALSE, seq |-> 0,
          floor |-> 0, since |-> 0, limit |-> 0, descending |-> FALSE,
          changes |-> << >>, docids |-> << >>,
          resp |-> << >>, revisions |-> NoRevisions, parsed |-> NotParsed,
          invoked |-> FALSE, crashed |-> FALSE, newEdits |-> TRUE,
          docs |-> << >>, result |-> << >>, viewErr |-> FALSE]

Init ==
    /\ bucket = << >>
    /\ nextUUID = 0
    /\ pc = [p \in Procs |-> "idle"]
    /\ loc = [p \in Procs |-> NoLoc]
    /\ issued = [n \in Names |-> << >>]
    /\ doneMax = [n \in Names |-> 0]
    /\ prefixes = {}

\* handlers that have read "not found" and are about to write a new record
Creating == {p \in Procs : pc[p] = "create_set"}

\* CreateDatabase, lines 83-91: validate the name, read cdb:<name>
CreateDatabaseGet(p, name) ==
    /\ pc[p] = "idle"
    /\ nextUUID + Cardinality(Creating) < MaxUUID
    /\ LET docname == dbInternalDocName(name) IN
         IF docname = << >>
         THEN /\ pc' = [pc EXCEPT ![p] = "done"]
              /\ loc' = [loc EXCEPT ![p] = [NoLoc EXCEPT !.op = "CreateDatabase",
                                              !.name = name, !.status = 400]]
         ELSE IF Has(bucket, docname)
         THEN /\ pc' = [pc EXCEPT ![p] = "done"]
              /\ loc' = [loc EXCEPT ![p] = [NoLoc EXCEPT !.op = "CreateDatabase",
                                              !.name = name, !.status = 412]]
         ELSE /\ pc' = [pc EXCEPT ![p] = "create_set"]
              /\ loc' = [loc EXCEPT ![p] = [NoLoc EXCEPT !.op = "CreateDatabase",
                                              !.name = name]]
    /\ UNCHANGED <<bucket, nextUUID, issued, doneMax, prefixes>>

\* CreateDatabase, lines 93-98: make the Database with a new UUID and Set it
CreateDatabaseSet(p) ==
    /\ pc[p] = "create_set"
    /\ LET db == NewDatabase(loc[p].name, UUIDs[nextUUID + 1]) IN
         /\ bucket' = BucketSet(bucket, dbInternalDocName(loc[p].name), DBValue(db))
         /\ loc' = [loc EXCEPT ![p].db = db, ![p].status = 201]
         /\ prefixes' = prefixes \cup {db.DocPrefix}
    /\ nextUUID' = nextUUID + 1
    /\ pc' = [pc EXCEPT ![p] = "done"]
    /\ UNCHANGED <<issued, doneMax>>

\* GetDatabase, lines 67-79: the status and the Database it returns; a
\* not-found error of the bucket is status 404
GetDatabaseResult(b, name) ==
    LET docname == dbInternalDocName(name) IN
    IF docname = << >> THEN [status |-> 400, db |-> NoDB]
    ELSE IF ~Has(b, docname) THEN [status |-> 404, db |-> NoDB]
    ELSE [status |-> 200, db |-> DecodeDB(b[docname])]

\* a call of GetDatabase; with the database in hand the handler goes on
GetDatabase(p, name) ==
    /\ pc[p] = "idle"
    /\ LET r == GetDatabaseResult(bucket, name) IN
         /\ pc' = [pc EXCEPT ![p] = IF r.status = 200 THEN "opened" ELSE "done"]
         /\ loc' = [loc EXCEPT ![p] = [NoLoc EXCEPT !.op = "GetDatabase", !.name = name,
                                         !.status = r.status, !.db = r.db]]
    /\ UNCHANGED <<bucket, nextUUID, issued, doneMax, prefixes>>

\* the value of a database's sequence counter, 0 when it was never written
CounterOf(b, db) == IF Has(b, sequenceDocID(db)) THEN b[sequenceDocID(db)].n ELSE 0

\* writers of one database that have passed the conflict check and not yet
\* drawn their sequence
Allocating(name) == {q \in Procs : pc[q] = "put_seq" /\ loc[q].db.Name = name}

\* Put(docid, body), steps 1-4: read the stored record and check body._rev
\* against the current revision (0 stands for no revision)
PutRead(p, docid, rev, deleted) ==
    /\ pc[p] = "opened"
    /\ CounterOf(bucket, loc[p].db) + Cardinality(Allocating(loc[p].db.Name)) < MaxSeq
    /\ LET key == realDocID(loc[p].db, docid)
           parent == IF Has(bucket, key) /\ ~bucket[key].current._deleted
                     THEN bucket[key].current._rev ELSE 0
       IN IF rev # parent
          THEN /\ pc' = [pc EXCEPT ![p] = "done"]
               /\ loc' = [loc EXCEPT ![p].op = "Put", ![p].docid = docid,
                                     ![p].status = 409]
          ELSE /\ pc' = [pc EXCEPT ![p] = "put_seq"]
               /\ loc' = [loc EXCEPT ![p].op = "Put", ![p].docid = docid,
                                     ![p].rev = parent + 1, ![p].deleted = deleted,
                                     ![p].floor = doneMax[loc[p].db.Name]]
    /\ UNCHANGED <<bucket, nextUUID, issued, doneMax, prefixes>>

\* Put, step 5: allocate the sequence
PutSeq(p) ==
    /\ pc[p] = "put_seq"
    /\ LET r == generateSequence(bucket, loc[p].db) IN
         /\ bucket' = r.bucket
         /\ loc' = [loc EXCEPT ![p].seq = r.val]
         /\ issued' = [issued EXCEPT ![loc[p].db.Name] = Append(@, r.val)]
    /\ pc' = [pc EXCEPT ![p] = "put_store"]
    /\ UNCHANGED <<nextUUID, doneMax, prefixes>>

\* Put, steps 6-7: Set the record under realDocID(docid)
PutStore(p) ==
    /\ pc[p] = "put_store"
    /\ bucket' = BucketSet(bucket, realDocID(loc[p].db, loc[p].docid),
                    DocValue(loc[p].docid, loc[p].rev, loc[p].deleted, loc[p].seq))
    /\ doneMax' = [doneMax EXCEPT ![loc[p].db.Name] =
                      IF loc[p].seq > @ THEN loc[p].seq ELSE @]
    /\ loc' = [loc EXCEPT ![p].status = 201]
    /\ pc' = [pc EXCEPT ![p] = "done"]
    /\ UNCHANGED <<nextUUID, issued, prefixes>>

\* a call of db.GetChanges(options)
DoGetChanges(p, since, limit, descending) ==
    /\ pc[p] = "opened"
    /\ loc' = [loc EXCEPT ![p].op = "GetChanges", ![p].since = since,
                          ![p].limit = limit, ![p].descending = descending,
                          ![p].changes = GetChanges(bucket, loc[p].db, since, limit, descending)]
    /\ pc' = [pc EXCEPT ![p] = "done"]
    /\ UNCHANGED <<bucket, nextUUID, issued, doneMax, prefixes>>

\* a call of db.AllDocIDs()
DoAllDocIDs(p) ==
    /\ pc[p] = "opened"
    /\ loc' = [loc EXCEPT ![p].op = "AllDocIDs",
                          ![p].docids = AllDocIDs(bucket, loc[p].db)]
    /\ pc' = [pc EXCEPT ![p] = "done"]
    /\ UNCHANGED <<bucket, nextUUID, issued, doneMax, prefixes>>

\* a call of db.LastSequence(); a not-found error of the bucket is status 404
DoLastSequence(p) ==
    /\ pc[p] = "opened"
    /\ LET r == LastSequence(bucket, loc[p].db) IN
         /\ bucket' = r.bucket
         /\ loc' = [loc EXCEPT ![p].op = "LastSequence", ![p].val = r.val,
                               ![p].status = IF r.err THEN 404 ELSE 200]
    /\ pc' = [pc EXCEPT ![p] = "done"]
    /\ UNCHANGED <<nextUUID, issued, doneMax, prefixes>>

\* Delete, lines 192-195: enumerate the documents
DeleteEnum(p) ==
    /\ pc[p] = "opened"
    /\ loc' = [loc EXCEPT ![p].op = "Delete", ![p].docids = AllDocIDs(bucket, loc[p].db)]
    /\ pc' = [pc EXCEPT ![p] = "delete_record"]
    /\ UNCHANGED <<bucket, nextUUID, issued, doneMax, prefixes>>

\* Delete, lines 197-200: remove the database record, or return the error
DeleteRecord(p) ==
    /\ pc[p] = "delete_record"
    /\ LET key == dbInternalDocName(loc[p].db.Name) IN
         IF Has(bucket, key)
         THEN /\ bucket' = BucketDelete(bucket, key)
              /\ pc' = [pc EXCEPT ![p] = "delete_counter"]
              /\ loc' = loc
         ELSE /\ bucket' = bucket
              /\ pc' = [pc EXCEPT ![p] = "done"]
              /\ loc' = [loc EXCEPT ![p].status = 404]
    /\ UNCHANGED <<nextUUID, issued, doneMax, prefixes>>

\* Delete, line 201: remove the sequence counter, whatever the outcome.  The
\* history of the counter ends with it
DeleteCounter(p) ==
    /\ pc[p] = "delete_counter"
    /\ bucket' = BucketDelete(bucket, sequenceDocID(loc[p].db))
    /\ issued' = [issued EXCEPT ![loc[p].db.Name] = << >>]
    /\ doneMax' = [doneMax EXCEPT ![loc[p].db.Name] = 0]
    /\ IF loc[p].docids = << >>
       THEN /\ pc' = [pc EXCEPT ![p] = "done"]
            /\ loc' = [loc EXCEPT ![p].status = 200]
       ELSE /\ pc' = [pc EXCEPT ![p] = "delete_docs"]
            /\ loc' = loc
    /\ UNCHANGED <<nextUUID, prefixes>>

\* Delete, lines 202-205: one turn of the loop, db.bucket.Delete(docID)
DeleteDoc(p) ==
    /\ pc[p] = "delete_docs"
    /\ bucket' = BucketDelete(bucket, Head(loc[p].docids))
    /\ IF Tail(loc[p].docids) = << >>
       THEN /\ pc' = [pc EXCEPT ![p] = "done"]
            /\ loc' = [loc EXCEPT ![p].docids = << >>, ![p].status = 200]
       ELSE /\ pc' = pc
            /\ loc' = [loc EXCEPT ![p].docids = Tail(@)]
    /\ UNCHANGED <<nextUUID, issued, doneMax, prefixes>>

\* the handler returns; the next request starts from nothing
Return(p) ==
    /\ pc[p] \in {"done", "opened"}
    /\ pc' = [pc EXCEPT ![p] = "idle"]
    /\ loc' = [loc EXCEPT ![p] = NoLoc]
    /\ UNCHANGED <<bucket, nextUUID, issued, doneMax, prefixes>>

\* Put, step by step
Write(p, docids) ==
    \/ \E docid \in docids, rev \in 0..MaxSeq, deleted \in BOOLEAN :
           PutRead(p, docid, rev, deleted)
    \/ PutSeq(p)
    \/ PutStore(p)

Query(p) ==
    \/ \E since \in Sinces, limit \in Limits, descending \in BOOLEAN :
           DoGetChanges(p, since, limit, descending)
    \/ DoAllDocIDs(p)

Registry(p, names) ==
    \/ \E name \in names : CreateDatabaseGet(p, name)
    \/ CreateDatabaseSet(p)
    \/ \E name \in names : GetDatabase(p, name)
    \/ Return(p)

Delete(p) ==
    \/ DeleteEnum(p)
    \/ DeleteRecord(p)
    \/ DeleteCounter(p)
    \/ DeleteDoc(p)

\* handlers in parallel: databases are created and opened, documents written,
\* the counter read
Next == \E p \in Procs : Registry(p, Names) \/ Write(p, DocIDs) \/ DoLastSequence(p)

Spec == Init /\ [][Next]_vars

\* one handler at a time: every operation, Delete too, and document ids with
\* and without ":"
NextSeq ==
    \/ Registry(1, SeqNames)
    \/ Write(1, ColonDocIDs)
    \/ Query(1)
    \/ DoLastSequence(1)
    \/ Delete(1)

SpecSeq == Init /\ [][NextSeq]_vars

\* the database name of the requests where one name is enough
RestNames == {<<"a">>}

\* ------------------------------------------------------------------ faults

\* CreateDatabase, lines 88-92, when bucket.Get fails with an error other than
\* not-found (a transport error): err is not nil, so the handler goes on
CreateDatabaseGetFault(p, name) ==
    /\ pc[p] = "idle"
    /\ nextUUID + Cardinality(Creating) < MaxUUID
    /\ dbInternalDocName(name) # << >>
    /\ pc' = [pc EXCEPT ![p] = "create_set"]
    /\ loc' = [loc EXCEPT ![p] = [NoLoc EXCEPT !.op = "CreateDatabase", !.name = name]]
    /\ UNCHANGED <<bucket, nextUUID, issued, doneMax, prefixes>>

\* CreateDatabase, lines 94-97, when bucket.Set fails: the error is returned
CreateDatabaseSetFault(p) ==
    /\ pc[p] = "create_set"
    /\ pc' = [pc EXCEPT ![p] = "done"]
    /\ loc' = [loc EXCEPT ![p].status = 502]
    /\ UNCHANGED <<bucket, nextUUID, issued, doneMax, prefixes>>

\* GetDatabase, lines 73-76, when bucket.Get fails with an error other than
\* not-found: the error is returned, ErrorAsHTTPStatus makes it 502
GetDatabaseFault(p, name) ==
    /\ pc[p] = "idle"
    /\ dbInternalDocName(name) # << >>
    /\ pc' = [pc EXCEPT ![p] = "done"]
    /\ loc' = [loc EXCEPT ![p] = [NoLoc EXCEPT !.op = "GetDatabase", !.name = name,
                                    !.status = 502]]
    /\ UNCHANGED <<bucket, nextUUID, issued, doneMax, prefixes>>

\* Delete, lines 192-195, when the view query of AllDocIDs fails
DeleteEnumFault(p) ==
    /\ pc[p] = "opened"
    /\ pc' = [pc EXCEPT ![p] = "done"]
    /\ loc' = [loc EXCEPT ![p].op = "Delete", ![p].status = 502]
    /\ UNCHANGED <<bucket, nextUUID, issued, doneMax, prefixes>>

\* a Delete that goes on to the counter although removing the record failed
DeleteRecordFaultIgnored(p) ==
    /\ pc[p] = "delete_record"
    /\ pc' = [pc EXCEPT ![p] = "delete_counter"]
    /\ UNCHANGED <<bucket, loc, nextUUID, issued, doneMax, prefixes>>

\* Delete, lines 197-200, when removing the database record fails
DeleteRecordFault(p) ==
    /\ pc[p] = "delete_record"
    /\ pc' = [pc EXCEPT ![p] = "done"]
    /\ loc' = [loc EXCEPT ![p].status = 502]
    /\ UNCHANGED <<bucket, nextUUID, issued, doneMax, prefixes>>

\* one handler at a time over a bucket whose calls can fail
NextFault ==
    \/ Registry(1, RestNames)
    \/ Write(1, DocIDs)
    \/ Delete(1)
    \/ \E name \in RestNames : CreateDatabaseGetFault(1, name)
    \/ CreateDatabaseSetFault(1)
    \/ \E name \in RestNames : GetDatabaseFault(1, name)
    \/ DeleteEnumFault(1)
    \/ DeleteRecordFault(1)

SpecFault == Init /\ [][NextFault]_vars

\* ------------------------------------------------------------------ REST

\* the _revisions property of a request body: absent, not an object, or an
\* object whose start is or is not a number and whose ids is or is not a list
RevisionsInputs ==
    {NoRevisions,
     [kind |-> "notobject", startOK |-> FALSE, start |-> 0, idsOK |-> FALSE, ids |-> << >>],
     [kind |-> "object", startOK |-> FALSE, start |-> 0, idsOK |-> TRUE, ids |-> <<"d">>],
     [kind |-> "object", startOK |-> TRUE, start |-> 1, idsOK |-> FALSE, ids |-> << >>]}
    \cup {[kind |-> "object", startOK |-> TRUE, start |-> n, idsOK |-> TRUE, ids |-> ids] :
             n \in 0..2, ids \in {<< >>, <<"d">>, <<"d", "e">>}}

\* the calls a handler makes on its http.ResponseWriter, in order
RespWriteHeader(status) == [call |-> "WriteHeader", status |-> status, body |-> ""]
RespWrite(body) == [call |-> "Write", status |-> 0, body |-> body]

\* writeJSON, lines 443-452: the value is marshalled and written
writeJSON(body) == <<RespWrite(body)>>

\* writeError, lines 456-463: nothing for a nil error (0), else the status and
\* the error envelope
writeError(err) ==
    IF err = 0 THEN << >> ELSE <<RespWriteHeader(err)>> \o writeJSON("error")

\* the error a call has returned, 0 for nil
ErrOf(l) == IF l.status >= 400 THEN l.status ELSE 0

\* net/http: the status line goes out with the first WriteHeader or the first
\* Write, whichever comes first; a Write without WriteHeader sends 200, a later
\* WriteHeader changes nothing; a handler that writes nothing sends 200
StatusSent(resp) ==
    IF resp = << >> THEN 200
    ELSE IF resp[1].call = "WriteHeader" THEN resp[1].status ELSE 200

\* what the handler writes once its call has returned: NewRESTHandler lines
\* 339-352, HandlePutDoc lines 42-48 and 60, HandlePostDoc lines 70-77, DELETE
\* of a database lines 214-215
HandlerReply(l) ==
    CASE l.op = "CreateDatabase" ->
            IF ErrOf(l) # 0 THEN writeError(ErrOf(l)) ELSE <<RespWriteHeader(201)>>
      [] l.op = "GetDatabase" -> writeError(ErrOf(l))
      [] l.op = "Put" ->
            IF ErrOf(l) # 0 THEN writeError(ErrOf(l))
            ELSE writeJSON("json") \o <<RespWriteHeader(201)>>
      [] l.op = "Post" ->
            IF ErrOf(l) # 0 THEN writeError(ErrOf(l)) ELSE writeJSON("json")
      [] l.op = "Delete" -> writeError(ErrOf(l)) \o <<RespWrite("ok")>>

Reply(p) ==
    /\ pc[p] = "done"
    /\ loc[p].op \in {"CreateDatabase", "GetDatabase", "Put", "Post", "Delete"}
    /\ loc' = [loc EXCEPT ![p].resp = HandlerReply(loc[p])]
    /\ pc' = [pc EXCEPT ![p] = "replied"]
    /\ UNCHANGED <<bucket, nextUUID, issued, doneMax, prefixes>>

\* the response is complete; the next request starts from nothing
Finish(p) ==
    /\ pc[p] = "replied"
    /\ pc' = [pc EXCEPT ![p] = "idle"]
    /\ loc' = [loc EXCEPT ![p] = NoLoc]
    /\ UNCHANGED <<bucket, nextUUID, issued, doneMax, prefixes>>

\* Post(body), spec 4.4.2: a UUID becomes the docid, then Put(docid, body)
PostRead(p, rev, deleted) ==
    /\ pc[p] = "opened"
    /\ nextUUID < MaxUUID
    /\ CounterOf(bucket, loc[p].db) < MaxSeq
    /\ nextUUID' = nextUUID + 1
    /\ LET docid == <<UUIDs[nextUUID + 1]>>
           key == realDocID(loc[p].db, docid)
           parent == IF Has(bucket, key) /\ ~bucket[key].current._deleted
                     THEN bucket[key].current._rev ELSE 0
       IN IF rev # parent
          THEN /\ pc' = [pc EXCEPT ![p] = "done"]
               /\ loc' = [loc EXCEPT ![p].op = "Post", ![p].docid = docid,
                                     ![p].status = 409]
          ELSE /\ pc' = [pc EXCEPT ![p] = "put_seq"]
               /\ loc' = [loc EXCEPT ![p].op = "Post", ![p].docid = docid,
                                     ![p].rev = parent + 1, ![p].deleted = deleted,
                                     ![p].floor = doneMax[loc[p].db.Name]]
    /\ UNCHANGED <<bucket, issued, doneMax, prefixes>>

\* parseRevisions, lines 397-415: nil when _revisions is no object or
\* start < len(ids); the type assertions of lines 404 and 405 panic when start
\* is no number or ids no list; else the revision ids "<start-i>-<ids[i]>",
\* each held as its generation and its digest
parseRevisions(revisions) ==
    IF revisions.kind # "object" THEN [kind |-> "nil", revs |-> << >>]
    ELSE IF ~revisions.startOK \/ ~revisions.idsOK THEN [kind |-> "panic", revs |-> << >>]
    ELSE IF revisions.start < Len(revisions.ids) THEN [kind |-> "nil", revs |-> << >>]
    ELSE [kind |-> "list",
          revs |-> [i \in 1..Len(revisions.ids) |->
                       [gen |-> revisions.start - (i - 1), id |-> revisions.ids[i]]]]

\* PutExistingRev(docid, body, revisions), spec 4.4.5: revisions[0] becomes the
\* stored _rev under a fresh sequence, unless the stored history has it already.
\* Without a revisions[0] the call returns an error or panics
PutExistingRev(b, db, docid, revs, deleted) ==
    IF revs = << >>
    THEN {[err |-> 400, crashed |-> FALSE, bucket |-> b, seq |-> 0],
          [err |-> 0, crashed |-> TRUE, bucket |-> b, seq |-> 0]}
    ELSE LET key == realDocID(db, docid)
             r == generateSequence(b, db)
         IN IF Has(b, key) /\ b[key].current._rev >= revs[1].gen
            THEN {[err |-> 0, crashed |-> FALSE, bucket |-> b, seq |-> 0]}
            ELSE {[err |-> 0, crashed |-> FALSE, seq |-> r.val,
                   bucket |-> BucketSet(r.bucket, key,
                                  DocValue(docid, revs[1].gen, deleted, r.val))]}

\* HandlePutDoc with new_edits=false, lines 50-60
HandlePutDocExisting(p, docid, revisions, deleted) ==
    /\ pc[p] = "opened"
    /\ CounterOf(bucket, loc[p].db) < MaxSeq
    /\ pc' = [pc EXCEPT ![p] = "replied"]
    /\ LET parsed == parseRevisions(revisions)
           name == loc[p].db.Name
       IN IF parsed.kind = "panic"
          THEN /\ loc' = [loc EXCEPT ![p].op = "PutExistingRev", ![p].docid = docid,
                                     ![p].newEdits = FALSE, ![p].revisions = revisions,
                                     ![p].parsed = parsed, ![p].crashed = TRUE]
               /\ UNCHANGED <<bucket, issued, doneMax>>
          ELSE \E o \in PutExistingRev(bucket, loc[p].db, docid, parsed.revs, deleted) :
               /\ bucket' = o.bucket
               /\ issued' = IF o.seq = 0 THEN issued
                            ELSE [issued EXCEPT ![name] = Append(@, o.seq)]
               /\ doneMax' = IF o.seq > doneMax[name]
                             THEN [doneMax EXCEPT ![name] = o.seq] ELSE doneMax
               /\ loc' = [loc EXCEPT
                     ![p].op = "PutExistingRev", ![p].docid = docid,
                     ![p].newEdits = FALSE, ![p].revisions = revisions,
                     ![p].parsed = parsed, ![p].invoked = TRUE,
                     ![p].deleted = deleted, ![p].seq = o.seq,
                     ![p].crashed = o.crashed,
                     ![p].status = IF parsed.kind = "nil" THEN 400
                                   ELSE IF o.err # 0 THEN o.err ELSE 201,
                     ![p].resp =
                         (IF parsed.kind = "nil" THEN writeError(400) ELSE << >>)
                         \o (IF o.crashed THEN << >>
                             ELSE writeError(o.err) \o <<RespWriteHeader(201)>>)]
    /\ UNCHANGED <<nextUUID, prefixes>>

\* Put(docid, body) run from start to end by a handler that works alone, spec
\* 4.4.1: the error (0 for none), the new revision, the sequence and the bucket
PutDoc(b, db, docid, rev, deleted) ==
    LET key == realDocID(db, docid)
        parent == IF Has(b, key) /\ ~b[key].current._deleted
                  THEN b[key].current._rev ELSE 0
        r == generateSequence(b, db)
    IN IF rev # parent
       THEN [err |-> 409, rev |-> 0, seq |-> 0, bucket |-> b]
       ELSE [err |-> 0, rev |-> parent + 1, seq |-> r.val,
             bucket |-> BucketSet(r.bucket, key, DocValue(docid, parent + 1, deleted, r.val))]

\* the items of a _bulk_docs body: _id (empty when there is none), _rev, _revisions
BulkItems ==
    {[id |-> <<"x">>, rev |-> 0, revisions |-> NoRevisions],
     [id |-> <<"x">>, rev |-> 1, revisions |-> NoRevisions],
     [id |-> <<"y">>, rev |-> 0, revisions |-> NoRevisions],
     [id |-> << >>, rev |-> 0, revisions |-> NoRevisions],
     [id |-> <<"x">>, rev |-> 0,
      revisions |-> [kind |-> "object", startOK |-> TRUE, start |-> 1, idsOK |-> TRUE,
                     ids |-> <<"d">>]],
     [id |-> <<"y">>, rev |-> 0,
      revisions |-> [kind |-> "object", startOK |-> TRUE, start |-> 2, idsOK |-> TRUE,
                     ids |-> <<"d", "e">>]],
     [id |-> <<"x">>, rev |-> 0,
      revisions |-> [kind |-> "object", startOK |-> FALSE, start |-> 0, idsOK |-> TRUE,
                     ids |-> <<"d">>]],
     [id |-> <<"y">>, rev |-> 0,
      revisions |-> [kind |-> "object", startOK |-> TRUE, start |-> 0, idsOK |-> TRUE,
                     ids |-> << >>]]}

\* the docs of a _bulk_docs body
BulkDocs == {<<i>> : i \in BulkItems} \cup {<<i, j>> : i, j \in BulkItems}

\* one turn of the loop of HandleBulkDocs, lines 104-137, on the state the
\* turns before have left: the bucket, the UUIDs used, the sequences issued,
\* the result list; a panic ends the handler
BulkItem(acc, db, newEdits, doc) ==
    IF newEdits
    THEN LET docid == IF doc.id # << >> THEN doc.id ELSE <<UUIDs[acc.uuid + 1]>>
             o == PutDoc(acc.bucket, db, docid, doc.rev, FALSE)
         IN [acc EXCEPT !.bucket = o.bucket,
                        !.uuid = IF doc.id # << >> THEN @ ELSE @ + 1,
                        !.issued = IF o.seq = 0 THEN @ ELSE Append(@, o.seq),
                        !.result = Append(@, [id |-> docid, rev |-> o.rev, error |-> o.err])]
    ELSE LET parsed == parseRevisions(doc.revisions) IN
         IF parsed.kind = "panic" THEN [acc EXCEPT !.crashed = TRUE]
         ELSE IF parsed.kind = "nil"
         THEN [acc EXCEPT !.result = Append(@, [id |-> doc.id, rev |-> 0, error |-> 400])]
         ELSE IF parsed.revs = << >> THEN [acc EXCEPT !.crashed = TRUE]
         ELSE LET o == CHOOSE x \in PutExistingRev(acc.bucket, db, doc.id, parsed.revs, FALSE) : TRUE
              IN [acc EXCEPT !.bucket = o.bucket,
                             !.issued = IF o.seq = 0 THEN @ ELSE Append(@, o.seq),
                             !.result = Append(@, [id |-> doc.id,
                                                   rev |-> IF o.err = 0 THEN parsed.revs[1].gen ELSE 0,
                                                   error |-> o.err])]

RECURSIVE BulkLoop(_, _, _, _)
BulkLoop(acc, db, newEdits, docs) ==
    IF docs = << >> \/ acc.crashed THEN acc
    ELSE BulkLoop(BulkItem(acc, db, newEdits, Head(docs)), db, newEdits, Tail(docs))

\* HandleBulkDocs, lines 92-141
HandleBulkDocs(p, newEdits, docs) ==
    /\ pc[p] = "opened"
    /\ CounterOf(bucket, loc[p].db) + Len(docs) <= MaxSeq
    /\ nextUUID + Cardinality({i \in 1..Len(docs) : docs[i].id = << >>}) <= MaxUUID
    /\ LET name == loc[p].db.Name
           acc == BulkLoop([bucket |-> bucket, uuid |-> nextUUID, issued |-> << >>,
                            result |-> << >>, crashed |-> FALSE],
                           loc[p].db, newEdits, docs)
       IN /\ bucket' = acc.bucket
          /\ nextUUID' = acc.uuid
          /\ issued' = [issued EXCEPT ![name] = @ \o acc.issued]
          /\ doneMax' = IF acc.issued = << >> THEN doneMax
                        ELSE [doneMax EXCEPT ![name] = acc.issued[Len(acc.issued)]]
          /\ loc' = [loc EXCEPT ![p].op = "BulkDocs", ![p].newEdits = newEdits,
                                ![p].docs = docs, ![p].crashed = acc.crashed,
                                ![p].result = IF acc.crashed THEN << >> ELSE acc.result,
                                ![p].status = 201,
                                ![p].resp = IF acc.crashed THEN << >>
                                            ELSE <<RespWriteHeader(201)>> \o writeJSON("json")]
    /\ pc' = [pc EXCEPT ![p] = "replied"]
    /\ UNCHANGED prefixes

\* RevsDiff(input), spec 4.4.6, for one docid: those of the caller's revisions
\* that the stored history does not hold
RevsDiff(b, db, docid, gens) ==
    {g \in gens : ~(Has(b, realDocID(db, docid)) /\ g <= b[realDocID(db, docid)].current._rev)}

\* POST _revs_diff, lines 250-265: the output is written, then the error if
\* there is one; err is the error of RevsDiff, 0 for none
HandleRevsDiff(p, docid, gens, err) ==
    /\ pc[p] = "opened"
    /\ loc' = [loc EXCEPT ![p].op = "RevsDiff", ![p].docid = docid,
                          ![p].val = IF err = 0
                                     THEN Cardinality(RevsDiff(bucket, loc[p].db, docid, gens))
                                     ELSE 0,
                          ![p].status = IF err = 0 THEN 200 ELSE err,
                          ![p].resp = writeJSON("json") \o writeError(err)]
    /\ pc' = [pc EXCEPT ![p] = "replied"]
    /\ UNCHANGED <<bucket, nextUUID, issued, doneMax, prefixes>>

\* one handler at a time behind the REST API: databases created and deleted,
\* documents by PUT, by POST, by replicator-style PUT and in bulk, _revs_diff;
\* the view query and the record removal of Delete and the reads of RevsDiff
\* can fail
NextRest ==
    \/ \E name \in RestNames : CreateDatabaseGet(1, name)
    \/ CreateDatabaseSet(1)
    \/ \E name \in RestNames : GetDatabase(1, name)
    \/ Write(1, DocIDs)
    \/ \E rev \in 0..1, deleted \in BOOLEAN : PostRead(1, rev, deleted)
    \/ \E docid \in DocIDs, revisions \in RevisionsInputs, deleted \in BOOLEAN :
           HandlePutDocExisting(1, docid, revisions, deleted)
    \/ \E newEdits \in BOOLEAN, docs \in BulkDocs : HandleBulkDocs(1, newEdits, docs)
    \/ \E docid \in DocIDs, gens \in SUBSET {1, 2}, err \in {0, 502} :
           HandleRevsDiff(1, docid, gens, err)
    \/ Delete(1)
    \/ DeleteEnumFault(1)
    \/ DeleteRecordFault(1)
    \/ Reply(1)
    \/ Finish(1)

SpecRest == Init /\ [][NextRest]_vars

\* ------------------------------------------------------------------ polling

\* the documents written while _changes is polled, and the ?since= values
PollDocIDs == {<<"x">>, <<"y">>}
PollSinces == {0, 1}

\* HandleChanges, lines 144-148: db.GetChanges(options); the request sets Since
\* and Limit
HandleChangesQuery(p, since, limit) ==
    /\ pc[p] = "opened"
    /\ loc' = [loc EXCEPT ![p].op = "HandleChanges", ![p].since = since,
                          ![p].limit = limit,
                          ![p].changes = GetChanges(bucket, loc[p].db, since, limit, FALSE)]
    /\ pc' = [pc EXCEPT ![p] = "changes_last"]
    /\ UNCHANGED <<bucket, nextUUID, issued, doneMax, prefixes>>

\* HandleChanges, lines 149-157: db.LastSequence(), then the error or
\* {results, last_seq}
HandleChangesLast(p) ==
    /\ pc[p] = "changes_last"
    /\ LET r == LastSequence(bucket, loc[p].db) IN
         /\ bucket' = r.bucket
         /\ loc' = [loc EXCEPT ![p].val = r.val,
                               ![p].status = IF r.err THEN 404 ELSE 200,
                               ![p].resp = IF r.err THEN writeError(404)
                                           ELSE writeJSON("json")]
    /\ pc' = [pc EXCEPT ![p] = "done"]
    /\ UNCHANGED <<nextUUID, issued, doneMax, prefixes>>

\* handlers in parallel: writers of one database and clients that poll _changes
NextPoll ==
    \E p \in Procs :
        \/ Registry(p, RestNames)
        \/ Write(p, PollDocIDs)
        \/ \E since \in PollSinces, limit \in Limits : HandleChangesQuery(p, since, limit)
        \/ HandleChangesLast(p)

SpecPoll == Init /\ [][NextPoll]_vars

\* ------------------------------------------------------------------ local documents

\* the key of a local document, spec 3: dbInternalDocName(name) + ":local:" + docid
localDocID(db, docid) == dbInternalDocName(db.Name) \o <<":", "local", ":">> \o docid

\* the stored local document: the raw body; `writer` records, for the claims,
\* the docPrefix of the database handle it was written through
LocalValue(db) == [kind |-> "local", writer |-> db.DocPrefix]

\* PutLocal(docid, body), spec 4.7: a Set under the local key
PutLocal(p, docid) ==
    /\ pc[p] = "opened"
    /\ bucket' = BucketSet(bucket, localDocID(loc[p].db, docid), LocalValue(loc[p].db))
    /\ loc' = [loc EXCEPT ![p].op = "PutLocal", ![p].docid = docid, ![p].status = 201]
    /\ pc' = [pc EXCEPT ![p] = "done"]
    /\ UNCHANGED <<nextUUID, issued, doneMax, prefixes>>

\* GetLocal(docid), spec 4.7: a Get under the local key
GetLocal(p, docid) ==
    /\ pc[p] = "opened"
    /\ loc' = [loc EXCEPT ![p].op = "GetLocal", ![p].docid = docid,
                          ![p].status = IF Has(bucket, localDocID(loc[p].db, docid))
                                        THEN 200 ELSE 404]
    /\ pc' = [pc EXCEPT ![p] = "done"]
    /\ UNCHANGED <<bucket, nextUUID, issued, doneMax, prefixes>>

\* one handler at a time: databases created, written to, deleted and created
\* again, with local documents
NextLocal ==
    \/ Registry(1, RestNames)
    \/ Write(1, DocIDs)
    \/ Delete(1)
    \/ \E docid \in DocIDs : PutLocal(1, docid)
    \/ \E docid \in DocIDs : GetLocal(1, docid)

SpecLocal == Init /\ [][NextLocal]_vars

\* ------------------------------------------------------------------ document count

\* the built-in _count reduce of all_docs (line 149) over the rows of the range:
\* one row whose value is the number of rows, and no row at all when the range
\* is empty
ReduceCount(rows) ==
    IF Len(rows) = 0 THEN << >> ELSE <<[value |-> Len(rows)]>>

\* DocCount, lines 113-119: the all_docs view over allDocIDsOpts(true); -1 when
\* the view fails, else vres.Rows[0].Value, an index out of range when the
\* view returns no row
DocCount(b, db, viewErr) ==
    IF viewErr THEN [crashed |-> FALSE, val |-> 0 - 1]
    ELSE LET rows == ReduceCount(ViewQuery(AllDocsRows(b), allDocIDsStart(db),
                                           allDocIDsEnd(db), FALSE, 0))
         IN IF Len(rows) = 0 THEN [crashed |-> TRUE, val |-> 0]
            ELSE [crashed |-> FALSE, val |-> rows[1].value]

\* Handle, GET /{db}, lines 204-209: {db_name, doc_count: db.DocCount()} as
\* JSON; a panic in DocCount ends the handler with nothing written
HandleGetDB(p, viewErr) ==
    /\ pc[p] = "opened"
    /\ LET r == DocCount(bucket, loc[p].db, viewErr) IN
         loc' = [loc EXCEPT ![p].op = "GetDB", ![p].val = r.val,
                            ![p].viewErr = viewErr, ![p].crashed = r.crashed,
                            ![p].resp = IF r.crashed THEN << >> ELSE writeJSON("json")]
    /\ pc' = [pc EXCEPT ![p] = "done"]
    /\ UNCHANGED <<bucket, nextUUID, issued, doneMax, prefixes>>

\* one handler at a time: databases created, written to and deleted, the
\* documents counted and listed
NextCount ==
    \/ Registry(1, RestNames)
    \/ Write(1, ColonDocIDs)
    \/ Delete(1)
    \/ \E viewErr \in BOOLEAN : HandleGetDB(1, viewErr)
    \/ DoAllDocIDs(1)

SpecCount == Init /\ [][NextCount]_vars

\* ------------------------------------------------------------------ claims

\* the keys the specification gives the database record and its counter
RecordKey(n) == <<"cdb", ":">> \o n
CounterKey(n) == <<"cdb", ":">> \o n \o <<":", "nextsequence">>

\* a name made up entirely of permitted characters
AllPermitted(n) == n # << >> /\ \A i \in 1..Len(n) : n[i] \in PermittedChars

IsPrefix(pre, k) == Len(k) >= Len(pre) /\ SubSeq(k, 1, Len(pre)) = pre

\* the document records stored under a database's docPrefix
DocKeys(b, db) == {k \in DOMAIN b : IsPrefix(db.DocPrefix, k) /\ b[k].kind = "doc"}

\* C1: a name that is empty or holds a character outside [-%+()$_a-z0-9] makes
\* CreateDatabase and GetDatabase fail with 400, and no record cdb:<name> is
\* ever written for it
C1_IllegalNamesRejected ==
    /\ \A p \in Procs :
           (loc[p].op \in {"CreateDatabase", "GetDatabase"} /\ ~AllPermitted(loc[p].name))
               => (pc[p] = "done" /\ loc[p].status = 400)
    /\ \A n \in Names : ~AllPermitted(n) => ~Has(bucket, RecordKey(n))

\* C2: a CreateDatabase that finds cdb:<name> fails with 412 and changes nothing
\* in the bucket; one that finds no record goes on to write cdb:<name> with the
\* name and a docPrefix "doc:<name>/<uuid>:" no record was written with before,
\* leaves every other key alone, and GetDatabase(name) on the bucket it leaves
\* returns the handle it returned
C2_CreateDatabaseContract ==
    [][\A p \in Procs :
        /\ (pc[p] = "idle" /\ loc'[p].op = "CreateDatabase"
                /\ Has(bucket, RecordKey(loc'[p].name)))
             => (pc'[p] = "done" /\ loc'[p].status = 412 /\ bucket' = bucket)
        /\ (pc[p] = "idle" /\ loc'[p].op = "CreateDatabase"
                /\ AllPermitted(loc'[p].name) /\ ~Has(bucket, RecordKey(loc'[p].name)))
             => pc'[p] = "create_set"
        /\ (pc[p] = "create_set" /\ pc'[p] = "done")
             => LET n == loc[p].name
                    k == RecordKey(n)
                IN /\ DOMAIN bucket' = DOMAIN bucket \cup {k}
                   /\ \A j \in DOMAIN bucket \ {k} : bucket'[j] = bucket[j]
                   /\ bucket'[k].Name = n
                   /\ bucket'[k].DocPrefix \notin prefixes
                   /\ IsPrefix(<<"doc", ":">> \o n \o <<"/">>, bucket'[k].DocPrefix)
                   /\ bucket'[k].DocPrefix[Len(bucket'[k].DocPrefix)] = ":"
                   /\ loc'[p].status = 201
                   /\ loc'[p].db = [Name |-> n, DocPrefix |-> bucket'[k].DocPrefix]
                   /\ GetDatabaseResult(bucket', n) = [status |-> 200, db |-> loc'[p].db]
      ]_vars

\* one CreateDatabase has failed with 412 on a database that holds a document
\* and a counter, another has created its database
C2_Witness ==
    \E p, q \in Procs :
        /\ pc[p] = "done" /\ loc[p].op = "CreateDatabase" /\ loc[p].status = 412
        /\ Has(bucket, CounterKey(loc[p].name))
        /\ DocKeys(bucket, DecodeDB(bucket[RecordKey(loc[p].name)])) # {}
        /\ pc[q] = "done" /\ loc[q].op = "CreateDatabase" /\ loc[q].status = 201

\* C3: while the record cdb:<name> exists its docPrefix never changes, in any
\* interleaving of CreateDatabase and GetDatabase calls
C3_DocPrefixNeverChanges ==
    [][\A n \in Names :
        (Has(bucket, RecordKey(n)) /\ Has(bucket', RecordKey(n)))
            => bucket'[RecordKey(n)].DocPrefix = bucket[RecordKey(n)].DocPrefix
      ]_vars

\* C4: when Delete has returned success the bucket holds no record cdb:<name>,
\* no counter cdb:<name>:nextsequence and no key that begins with the docPrefix
C4_DeleteRemovesEverything ==
    \A p \in Procs :
        (pc[p] = "done" /\ loc[p].op = "Delete" /\ loc[p].status = 200)
            => /\ ~Has(bucket, RecordKey(loc[p].db.Name))
               /\ ~Has(bucket, CounterKey(loc[p].db.Name))
               /\ \A k \in DOMAIN bucket : ~IsPrefix(loc[p].db.DocPrefix, k)

\* C5: the values generateSequence has returned for a database start at 1 and
\* are strictly increasing in the order of the increments, so none is repeated;
\* a write gets a sequence larger than that of every write that had completed
\* when it started
C5_SequencesIncrease ==
    /\ \A n \in Names :
           /\ issued[n] # << >> => issued[n][1] = 1
           /\ \A i, j \in 1..Len(issued[n]) : i < j => issued[n][i] < issued[n][j]
    /\ \A p \in Procs :
           (loc[p].op = "Put" /\ pc[p] \in {"put_store", "done"} /\ loc[p].status # 409)
               => loc[p].seq > loc[p].floor

\* two writes of one database have completed, the second started after the first
\* was stored
C5_Witness ==
    \E p, q \in Procs :
        /\ pc[p] = "done" /\ loc[p].op = "Put" /\ loc[p].status = 201
        /\ pc[q] = "done" /\ loc[q].op = "Put" /\ loc[q].status = 201
        /\ loc[p].db.Name = loc[q].db.Name
        /\ loc[q].floor >= loc[p].seq
        /\ loc[p].seq < loc[q].seq

\* C6: LastSequence changes no key of the bucket and succeeds: with 0 when the
\* counter was never written, otherwise with the value generateSequence returned
\* last
C6_LastSequenceContract ==
    [][\A p \in Procs :
        (pc[p] = "opened" /\ loc'[p].op = "LastSequence")
            => /\ bucket' = bucket
               /\ loc'[p].status = 200
               /\ loc'[p].val = IF issued[loc[p].db.Name] = << >> THEN 0
                                ELSE issued[loc[p].db.Name][Len(issued[loc[p].db.Name])]
      ]_vars

\* the entry the changes feed is to show for a stored document record
EntryOf(doc) ==
    [Seq |-> doc.sequence, ID |-> doc.current._id, Rev |-> doc.current._rev,
     Deleted |-> doc.current._deleted]

\* C7: GetChanges({since: s}) with no limit returns one entry for every stored
\* record of the database whose sequence is > s, and nothing else: each with
\* the record's seq, id, rev and deleted flag, seq <= LastSequence(), in
\* ascending seq order, none with seq <= s
C7_GetChangesExact ==
    \A p \in Procs :
        (pc[p] = "done" /\ loc[p].op = "GetChanges" /\ loc[p].limit = 0
                /\ ~loc[p].descending)
            => LET ch == loc[p].changes
                   recs == {k \in DocKeys(bucket, loc[p].db) :
                               bucket[k].sequence > loc[p].since}
               IN /\ Len(ch) = Cardinality(recs)
                  /\ \A k \in recs : \E i \in 1..Len(ch) : ch[i] = EntryOf(bucket[k])
                  /\ \A i \in 1..Len(ch) :
                         /\ ch[i].Seq > loc[p].since
                         /\ ch[i].Seq <= CounterOf(bucket, loc[p].db)
                  /\ \A i, j \in 1..Len(ch) : i < j => ch[i].Seq < ch[j].Seq

\* the entries of a result that are for one document
EntriesFor(ch, docid) == {i \in 1..Len(ch) : ch[i].ID = docid}

\* a document that was created, updated and then deleted: its revision is of
\* generation 3 and it is a tombstone
ThriceWritten(b, db, docid) ==
    /\ Has(b, db.DocPrefix \o docid)
    /\ b[db.DocPrefix \o docid].current._rev = 3
    /\ b[db.DocPrefix \o docid].current._deleted

\* C8, as the specification has it: after a document was created, updated and
\* deleted, _changes?since=0 shows three entries for it, the last with deleted
C8_ThreeEntries ==
    \A p \in Procs : \A docid \in ColonDocIDs :
        (pc[p] = "done" /\ loc[p].op = "GetChanges" /\ loc[p].since = 0
                /\ loc[p].limit = 0 /\ ~loc[p].descending
                /\ ThriceWritten(bucket, loc[p].db, docid))
            => LET ch == loc[p].changes IN
               /\ Cardinality(EntriesFor(ch, docid)) = 3
               /\ \E i \in EntriesFor(ch, docid) :
                      ch[i].Deleted /\ \A j \in EntriesFor(ch, docid) : j <= i

\* C8, amended: _changes?since=0 shows exactly one entry for every stored
\* document, that of its latest write: its sequence, revision and deleted flag
C8_LatestWriteOnly ==
    \A p \in Procs : \A docid \in ColonDocIDs :
        (pc[p] = "done" /\ loc[p].op = "GetChanges" /\ loc[p].since = 0
                /\ loc[p].limit = 0 /\ ~loc[p].descending
                /\ Has(bucket, loc[p].db.DocPrefix \o docid))
            => LET ch == loc[p].changes IN
               /\ Cardinality(EntriesFor(ch, docid)) = 1
               /\ \A i \in EntriesFor(ch, docid) :
                      ch[i] = EntryOf(bucket[loc[p].db.DocPrefix \o docid])

\* _changes?since=0 was answered for a database in which a document has been
\* created, updated and deleted
C8_Witness ==
    \E p \in Procs : \E docid \in ColonDocIDs :
        /\ pc[p] = "done" /\ loc[p].op = "GetChanges" /\ loc[p].since = 0
        /\ loc[p].limit = 0 /\ ~loc[p].descending
        /\ ThriceWritten(bucket, loc[p].db, docid)
        /\ \E i \in EntriesFor(loc[p].changes, docid) : loc[p].changes[i].Deleted

\* C9: GetChanges with descending and no limit returns the entries with
\* seq > since in strictly decreasing seq order, the same entries as the
\* ascending query with the same since
C9_DescendingSameEntries ==
    \A p \in Procs :
        (pc[p] = "done" /\ loc[p].op = "GetChanges" /\ loc[p].limit = 0
                /\ loc[p].descending)
            => LET ch == loc[p].changes
                   asc == GetChanges(bucket, loc[p].db, loc[p].since, 0, FALSE)
               IN /\ {ch[i] : i \in 1..Len(ch)} = {asc[i] : i \in 1..Len(asc)}
                  /\ \A i \in 1..Len(ch) : ch[i].Seq > loc[p].since
                  /\ \A i, j \in 1..Len(ch) : i < j => ch[i].Seq > ch[j].Seq

\* the docids stored under a database's docPrefix
StoredDocIDs(b, db) ==
    {SubSeq(k, Len(db.DocPrefix) + 1, Len(k)) : k \in DocKeys(b, db)}

\* C10: AllDocIDs returns every docid stored under the docPrefix once and in
\* full, in ascending order, and nothing else
C10_AllDocIDsExact ==
    \A p \in Procs :
        (pc[p] = "done" /\ loc[p].op = "AllDocIDs")
            => LET ids == loc[p].docids IN
               /\ {ids[i] : i \in 1..Len(ids)} = StoredDocIDs(bucket, loc[p].db)
               /\ Len(ids) = Cardinality(StoredDocIDs(bucket, loc[p].db))
               /\ \A i, j \in 1..Len(ids) : i < j => StrCmp(ids[i], ids[j]) < 0

\* C11: every document write that succeeded has sent status 201 to the client:
\* POST /{db}, a regular PUT /{db}/{doc} and PUT /{db}/{doc}?new_edits=false
C11_WritesAnswer201 ==
    \A p \in Procs :
        (pc[p] = "replied" /\ loc[p].op \in {"Put", "Post", "PutExistingRev"}
                /\ loc[p].status = 201 /\ ~loc[p].crashed)
            => StatusSent(loc[p].resp) = 201

\* a _revisions that is missing, malformed, has start < len(ids) or names no
\* revision at all
BadRevisions(r) ==
    \/ r.kind # "object"
    \/ ~r.startOK
    \/ ~r.idsOK
    \/ r.start < Len(r.ids)
    \/ r.ids = << >>

\* C13: a PUT with new_edits=false whose _revisions is bad is answered with 400:
\* PutExistingRev is not invoked for it, no sequence is allocated and no
\* document stored, and the handler does not crash
C13_BadRevisionsRejected ==
    \A p \in Procs :
        (pc[p] = "replied" /\ loc[p].op = "PutExistingRev"
                /\ BadRevisions(loc[p].revisions))
            => /\ StatusSent(loc[p].resp) = 400
               /\ ~loc[p].invoked
               /\ ~loc[p].crashed
               /\ loc[p].seq = 0

\* C14: parseRevisions returns no list exactly when _revisions is absent or no
\* object, or start < len(ids); for {start, ids} with start >= len(ids) it
\* returns len(ids) revision ids, the i-th "<start-i>-<ids[i]>", generations
\* falling by one and all >= 1
C14_ParseRevisionsContract ==
    \A p \in Procs :
        loc[p].parsed.kind # "none"
            => LET r == loc[p].revisions
                   out == loc[p].parsed
               IN /\ (out.kind # "list")
                        <=> (\/ r.kind # "object"
                             \/ (r.startOK /\ r.idsOK /\ r.start < Len(r.ids)))
                  /\ (r.kind = "object" /\ r.startOK /\ r.idsOK /\ r.start >= Len(r.ids))
                        => /\ out.kind = "list"
                           /\ Len(out.revs) = Len(r.ids)
                           /\ \A i \in 1..Len(out.revs) :
                                  /\ out.revs[i] = [gen |-> r.start - (i - 1), id |-> r.ids[i]]
                                  /\ out.revs[i].gen >= 1
                                  /\ i > 1 => out.revs[i].gen = out.revs[i - 1].gen - 1

\* the sequence under which the document of a result is stored
StoredSeq(b, db, docid) ==
    IF Has(b, db.DocPrefix \o docid) THEN b[db.DocPrefix \o docid].sequence ELSE 0

\* C12: _bulk_docs answers with one result per input document, in input order,
\* holding the id (the generated one of an item written without _id) and
\* either the rev (written) or an error (not written); an
\* item that fails does not keep the later items from being processed, and the
\* documents written are in _changes with sequences in the order of the items
C12_BulkDocsContract ==
    \A p \in Procs :
        (pc[p] = "replied" /\ loc[p].op = "BulkDocs")
            => LET docs == loc[p].docs
                   res == loc[p].result
                   ch == GetChanges(bucket, loc[p].db, 0, 0, FALSE)
               IN /\ ~loc[p].crashed
                  /\ Len(res) = Len(docs)
                  /\ \A i \in 1..Len(res) :
                         /\ docs[i].id # << >> => res[i].id = docs[i].id
                         /\ res[i].error = 0 => res[i].id # << >>
                         /\ (res[i].rev # 0) # (res[i].error # 0)
                         /\ res[i].error = 0 => \E k \in 1..Len(ch) : ch[k].ID = res[i].id
                  /\ \A i, j \in 1..Len(res) :
                         (i < j /\ res[i].error = 0 /\ res[j].error = 0 /\ res[i].id # res[j].id
                               /\ loc[p].newEdits)
                             => StoredSeq(bucket, loc[p].db, res[i].id)
                                    < StoredSeq(bucket, loc[p].db, res[j].id)

\* C15: CreateDatabase writes cdb:<name> only when no record is there, so that
\* a read failing with an error other than not-found never leads to an existing
\* record being overwritten; GetDatabase answers 404 only when no record is there
C15_OnlyNotFoundCreates ==
    [][\A p \in Procs :
        /\ (pc[p] = "create_set" /\ pc'[p] = "done" /\ loc'[p].status = 201)
             => ~Has(bucket, RecordKey(loc[p].name))
        /\ \A n \in Names :
             (Has(bucket, RecordKey(n)) /\ Has(bucket', RecordKey(n)))
                 => bucket'[RecordKey(n)] = bucket[RecordKey(n)]
        /\ (pc[p] = "idle" /\ loc'[p].op = "GetDatabase" /\ loc'[p].status = 404)
             => ~Has(bucket, RecordKey(loc'[p].name))
      ]_vars

\* C16: Delete removes the counter and the documents only after the record:
\* while it is at the counter or the documents the record cdb:<name> is absent
\* and GetDatabase answers not-found, and no step removes a counter whose
\* record is there; a Delete that fails, at the enumeration or at the record,
\* has changed nothing in the bucket
C16_DeleteOrder ==
    [][\A p \in Procs :
        /\ pc[p] \in {"delete_counter", "delete_docs"}
             => /\ ~Has(bucket, RecordKey(loc[p].db.Name))
                /\ GetDatabaseResult(bucket, loc[p].db.Name).status = 404
        /\ \A n \in Names :
             (Has(bucket, CounterKey(n)) /\ ~Has(bucket', CounterKey(n)))
                 => ~Has(bucket, RecordKey(n))
        /\ \A k \in DOMAIN bucket :
             (bucket[k].kind = "doc" /\ ~Has(bucket', k))
                 => \A n \in Names : IsPrefix(<<"doc", ":">> \o n \o <<"/">>, k)
                                        => ~Has(bucket, RecordKey(n))
        /\ (pc[p] = "opened" /\ pc'[p] = "delete_record") => bucket' = bucket
        /\ (loc'[p].op = "Delete" /\ pc[p] # "done" /\ pc'[p] = "done"
                /\ loc'[p].status >= 400)
             => (bucket' = bucket /\ pc[p] \in {"opened", "delete_record"})
      ]_vars

\* a Delete has removed the record and the counter of a database that holds a
\* document, and is about to turn to the documents
C16_Witness ==
    \E p \in Procs :
        /\ pc[p] = "delete_docs"
        /\ loc[p].docids # << >>
        /\ ~Has(bucket, RecordKey(loc[p].db.Name))
        /\ ~Has(bucket, CounterKey(loc[p].db.Name))
        /\ DocKeys(bucket, loc[p].db) # {}

\* C17: a client that has received a _changes response with last_seq L for its
\* since misses nothing: whenever a record of the database is stored with a
\* sequence above since and up to L, the response held an entry for that
\* document with that sequence or a later one
C17_PollingMissesNothing ==
    \A p \in Procs :
        (pc[p] = "done" /\ loc[p].op = "HandleChanges" /\ loc[p].status = 200)
            => \A k \in DocKeys(bucket, loc[p].db) :
                   (loc[p].since < bucket[k].sequence /\ bucket[k].sequence <= loc[p].val)
                       => \E i \in 1..Len(loc[p].changes) :
                              /\ loc[p].changes[i].ID = bucket[k].current._id
                              /\ loc[p].changes[i].Seq >= bucket[k].sequence

\* the database of this name was created after an earlier one of the same name
\* had been deleted, and nothing has been written to it yet
FreshlyRecreated(n) ==
    /\ Has(bucket, RecordKey(n))
    /\ \E pre \in prefixes :
           pre # bucket[RecordKey(n)].DocPrefix /\ IsPrefix(<<"doc", ":">> \o n \o <<"/">>, pre)
    /\ issued[n] = << >>
    /\ \A k \in DOMAIN bucket :
           bucket[k].kind = "local" => bucket[k].writer # bucket[RecordKey(n)].DocPrefix

\* C18: a database created after Delete of one with the same name is empty:
\* AllDocIDs and GetChanges(since 0) return nothing, the counter is unset and
\* the first write gets sequence 1, and no local document of the earlier
\* database can be read through it
C18_RecreatedIsEmpty ==
    \A n \in RestNames :
        FreshlyRecreated(n)
            => LET db == DecodeDB(bucket[RecordKey(n)]) IN
               /\ AllDocIDs(bucket, db) = << >>
               /\ GetChanges(bucket, db, 0, 0, FALSE) = << >>
               /\ ~Has(bucket, CounterKey(n))
               /\ generateSequence(bucket, db).val = 1
               /\ \A docid \in DocIDs : ~Has(bucket, localDocID(db, docid))

\* what a handler writes for an error, and what it writes for a success
IsErrorWrite(e) ==
    (e.call = "WriteHeader" /\ e.status >= 400) \/ (e.call = "Write" /\ e.body = "error")
IsSuccessWrite(e) ==
    (e.call = "WriteHeader" /\ e.status < 400) \/ (e.call = "Write" /\ e.body # "error")

\* C19: a handler emits one outcome: after an error status or envelope it
\* writes no success status and no success body, and it writes no success body
\* before an error
C19_OneOutcome ==
    \A p \in Procs :
        \A i, j \in 1..Len(loc[p].resp) :
            i < j => ~(IsErrorWrite(loc[p].resp[i]) /\ IsSuccessWrite(loc[p].resp[j]))
                     /\ ~(IsSuccessWrite(loc[p].resp[i]) /\ IsErrorWrite(loc[p].resp[j]))

\* C20: for every since the query accepts, 2^64-1 (MaxUint) too, GetChanges
\* returns no entry with seq <= since
C20_NoEntryUpToSince ==
    \A p \in Procs :
        (pc[p] = "done" /\ loc[p].op = "GetChanges")
            => \A i \in 1..Len(loc[p].changes) : loc[p].changes[i].Seq > loc[p].since

\* C21: when the view answers, GET /{db} replies with a doc_count equal to the
\* number of docids AllDocIDs returns in the same state, 0 on a database with
\* no documents, and does not crash
C21_DocCountIsAllDocIDs ==
    \A p \in Procs :
        (pc[p] = "done" /\ loc[p].op = "GetDB" /\ ~loc[p].viewErr)
            => /\ ~loc[p].crashed
               /\ loc[p].val = Len(AllDocIDs(bucket, loc[p].db))
               /\ loc[p].resp = writeJSON("json")
====
